---- MODULE Spec2Model ----
(***************************************************************************)
(* A model of four builtin modules of the RustPython virtual machine:      *)
(*   vm/src/exceptions.rs        the exception classes, their constructor,  *)
(*                               string conversion and top-level printer    *)
(*   vm/src/obj/objbytearray.rs  the bytearray object                       *)
(*   vm/src/stdlib/re.rs         the re module (opaque Regex/Match payload) *)
(*   vm/src/obj/objslice.rs      the slice object                           *)
(* Each module has its own specification (SpecExc, SpecBytes, SpecRe) over  *)
(* the shared variables; a specification leaves the other modules' state    *)
(* unchanged.                                                               *)
(***************************************************************************)
EXTENDS Integers, Sequences, FiniteSets, TLC

VARIABLES
    stage,      \* exceptions: "start" -> "zoo" (ExceptionZoo::new ran) -> "init" (exceptions::init ran)
    bases,      \* class name -> name of its base class ("" for the root object class)
    dicts,      \* class name -> its own attribute table (attribute name -> native function)
    exc,        \* the object under test: [cls, dict], dict its instance attributes
    init_args,  \* the extra arguments of the last exception_init call on exc
    ret,        \* what the last operation returned or printed (tb_len: the number of
                \* traceback entries the receiver of exception_init had before the call)
    heap,       \* bytearray: object id -> [cls, value: the Vec<u8>, rd: shared borrows, wr: mutable borrows]
    names,      \* bytearray: guest-visible reference -> object id
    hist,       \* bytearray: object id -> [base, pops]: its contents when built (empty since its
                \* last clear) and the number of successful pops since
    call,       \* bytearray: the native call in progress (its result, the borrows it holds), or Idle
    objs,       \* re: the objects the module has built, each [cls, payload]
    rret,       \* re: what the last operation returned
    sl,         \* slice: the slice object slice_new built last, or NoSlice
    sret        \* slice: the native call in progress, its arguments and result, or NoSRet

vars == <<stage, bases, dicts, exc, init_args, ret, heap, names, hist, call, objs, rret, sl, sret>>
excVars == <<stage, bases, dicts, exc, init_args, ret>>
bytesVars == <<heap, names, hist, call>>
reVars == <<objs, rret>>
sliceVars == <<sl, sret>>

(***************************************************************************)
(* Bounds of the model.                                                    *)
(***************************************************************************)
\* the longest traceback the unwinder builds
MaxTb == 2
\* the most extra arguments passed to exception_init
MaxArgs == 2
\* the most bytearray objects built
MaxObjs == 2
\* the most objects the re module and its callers build
MaxReObjs == 3
\* the most positional arguments a call of slice_new is given
MaxSliceArgs == 4

(***************************************************************************)
(* Values of the guest language.                                           *)
(***************************************************************************)
StrV(s) == [kind |-> "str", s |-> s]
NoneV == [kind |-> "none"]
\* an object whose __str__ raises
BadV == [kind |-> "bad"]
IntV(n) == [kind |-> "int", n |-> n]
BoolV(t) == [kind |-> "bool", t |-> t]
\* a str given by its characters' code points
CharsV(cps) == [kind |-> "chars", cps |-> cps]
\* a freshly built bytearray object returned to the caller
BytearrayV(value) == [kind |-> "bytearray", value |-> value]
\* a reference to an object of the heap
ObjV(id) == [kind |-> "obj", id |-> id]
ListV(items) == [kind |-> "list", items |-> items]
TupleV(items) == [kind |-> "tuple", items |-> items]

\* a raised exception value: an instance of class cls carrying msg
ErrV(cls, msg) == [kind |-> "exc", cls |-> cls, msg |-> msg]

Ok(v) == [kind |-> "ok", val |-> v]
Err(cls, msg) == [kind |-> "err", val |-> ErrV(cls, msg)]
Panic(msg) == [kind |-> "panic", val |-> StrV(msg)]

EmptyDict == [k \in {} |-> NoneV]

\* vm.ctx.set_attr(obj, name, value) on the instance attribute mapping
set_attr(d, name, value) ==
    [k \in DOMAIN d \cup {name} |-> IF k = name THEN value ELSE d[k]]

Reverse(s) == [i \in 1..Len(s) |-> s[Len(s) + 1 - i]]

(***************************************************************************)
(* Type/Class registry.                                                    *)
(***************************************************************************)
\* create_type(name, type_type, base): a new class whose sole parent is base
create_type(b, name, base) ==
    [c \in DOMAIN b \cup {name} |-> IF c = name THEN base ELSE b[c]]

\* The create_type calls of ExceptionZoo::new, in the order of the source.
ZooDeclsWrongBase ==
    << <<"BaseException", "object">>,
       <<"Exception", "BaseException">>,
       <<"ArithmeticError", "Exception">>,
       <<"AssertionError", "Exception">>,
       <<"AttributeError", "Exception">>,
       <<"ImportError", "Exception">>,
       <<"IndexError", "Exception">>,
       <<"KeyError", "Exception">>,
       <<"NameError", "Exception">>,
       <<"OSError", "Exception">>,
       <<"RuntimeError", "Exception">>,
       <<"StopIteration", "Exception">>,
       <<"SyntaxError", "Exception">>,
       <<"TypeError", "Exception">>,
       <<"ValueError", "Exception">>,
       <<"OverflowError", "ArithmeticError">>,
       <<"ZeroDivisionError", "ArithmeticError">>,
       <<"ModuleNotFoundError", "ImportError">>,
       <<"NotImplementedError", "RuntimeError">>,
       <<"FileNotFoundError", "Exception">>,
       <<"PermissionError", "OSError">> >>

ZooDecls ==
    << <<"BaseException", "object">>,
       <<"Exception", "BaseException">>,
       <<"ArithmeticError", "Exception">>,
       <<"AssertionError", "Exception">>,
       <<"AttributeError", "Exception">>,
       <<"ImportError", "Exception">>,
       <<"IndexError", "Exception">>,
       <<"KeyError", "Exception">>,
       <<"NameError", "Exception">>,
       <<"OSError", "Exception">>,
       <<"RuntimeError", "Exception">>,
       <<"StopIteration", "Exception">>,
       <<"SyntaxError", "Exception">>,
       <<"TypeError", "Exception">>,
       <<"ValueError", "Exception">>,
       <<"OverflowError", "ArithmeticError">>,
       <<"ZeroDivisionError", "ArithmeticError">>,
       <<"ModuleNotFoundError", "ImportError">>,
       <<"NotImplementedError", "RuntimeError">>,
       <<"FileNotFoundError", "OSError">>,
       <<"PermissionError", "OSError">> >>

RECURSIVE CreateAll(_, _, _)
CreateAll(b, decls, i) ==
    IF i > Len(decls) THEN b
    ELSE CreateAll(create_type(b, decls[i][1], decls[i][2]), decls, i + 1)

\* ExceptionZoo::new(type_type, object_type)
ExceptionZoo_new(b) == CreateAll(b, ZooDecls, 1)

\* The classes that exist before ExceptionZoo::new: the root object class and type.
BootBases == [c \in {"object", "type"} |-> IF c = "object" THEN "" ELSE "object"]

\* the chain from class c up through its bases, at most n steps
RECURSIVE Chain(_, _, _)
Chain(b, c, n) ==
    IF c \notin DOMAIN b \/ n = 0 THEN <<>>
    ELSE <<c>> \o Chain(b, b[c], n - 1)

MRO(b, c) == Chain(b, c, Cardinality(DOMAIN b))

\* objtype::issubclass: ancestor appears in the chain from c to the root
is_subclass(b, c, ancestor) ==
    \E i \in 1..Len(MRO(b, c)) : MRO(b, c)[i] = ancestor

\* objtype::isinstance(obj, cls)
isinstance(b, obj, cls) == is_subclass(b, obj.cls, cls)

\* lookup_attribute(class, name): the first hit walking from class up through
\* its bases, "" when the whole chain has none
lookup_attribute(b, d, c, name) ==
    LET mro == MRO(b, c)
        hits == {i \in 1..Len(mro) : mro[i] \in DOMAIN d /\ name \in DOMAIN d[mro[i]]}
    IN  IF hits = {} THEN ""
        ELSE d[mro[CHOOSE i \in hits : \A j \in hits : i <= j]][name]

\* extend_class!(context, class, { name => value })
extend_class(d, c, name, value) ==
    [k \in DOMAIN d \cup {c} |->
        IF k = c THEN set_attr(IF c \in DOMAIN d THEN d[c] ELSE EmptyDict, name, value)
        ELSE d[k]]

\* exceptions::init registering __str__ on the root exception class instead
exceptions_init_on_base(d) ==
    extend_class(extend_class(d, "BaseException", "__init__", "exception_init"),
                 "BaseException", "__str__", "exception_str")

\* exceptions::init(context)
exceptions_init(d) ==
    extend_class(extend_class(d, "BaseException", "__init__", "exception_init"),
                 "Exception", "__str__", "exception_str")

(***************************************************************************)
(* exceptions.rs: constructor, string conversion, printer.                 *)
(***************************************************************************)
\* vm.get_attribute(obj, name): the instance's own attribute, else the class chain's
has_attribute(b, d, obj, name) ==
    name \in DOMAIN obj.dict \/ lookup_attribute(b, d, obj.cls, name) # ""

\* vm.to_str / vm.to_pystr of a value: a str converts to itself, None to "None",
\* and the conversion of an object whose __str__ raises fails
to_pystr(v) ==
    CASE v.kind = "str" -> [ok |-> TRUE, s |-> v.s]
      [] v.kind = "none" -> [ok |-> TRUE, s |-> "None"]
      [] OTHER -> [ok |-> FALSE, s |-> ""]

\* exception_init with the default message left empty
exception_init_empty_default(obj, extra) ==
    LET msg == IF Len(extra) > 0 THEN extra[1] ELSE StrV("")
    IN  [obj EXCEPT !.dict = set_attr(set_attr(@, "msg", msg), "__traceback__", ListV(<<>>))]

\* exception_init that leaves a traceback the receiver already has
exception_init_keeps_traceback(obj, extra) ==
    LET msg == IF Len(extra) > 0 THEN extra[1] ELSE StrV("No msg")
        tb == IF "__traceback__" \in DOMAIN obj.dict
              THEN obj.dict["__traceback__"] ELSE ListV(<<>>)
    IN  [obj EXCEPT !.dict = set_attr(set_attr(@, "msg", msg), "__traceback__", tb)]

\* exception_init(vm, args), args = <<obj>> \o extra; the object after the call
exception_init(obj, extra) ==
    LET msg == IF Len(extra) > 0 THEN extra[1] ELSE StrV("No msg")
    IN  [obj EXCEPT !.dict = set_attr(set_attr(@, "msg", msg), "__traceback__", ListV(<<>>))]

\* the class the receiver of exception_str must be an instance of
exception_str_receiver == "Exception"

\* exception_str(vm, args), args = <<obj>>
exception_str(b, obj) ==
    IF ~isinstance(b, obj, exception_str_receiver)
    THEN Err("TypeError", "Unexpected type for argument exc")
    ELSE IF "msg" \in DOMAIN obj.dict
         THEN LET m == to_pystr(obj.dict["msg"])
                  msg == IF m.ok THEN m.s ELSE "<exception str() failed>"
              IN  Ok(StrV(obj.cls \o ": " \o msg))
         ELSE Panic("Error message must be set")

\* vm.to_str(obj) of an object: calls the __str__ its class chain supplies; the
\* root object class's own conversion when no class below it registers one
to_str_object(b, d, obj) ==
    IF lookup_attribute(b, d, obj.cls, "__str__") = "exception_str"
    THEN exception_str(b, obj)
    ELSE Ok(StrV("<" \o obj.cls \o " object>"))

\* the field of a traceback entry as print_exception renders it
field_str(v) == IF to_pystr(v).ok THEN to_pystr(v).s ELSE "<error>"

\* elements.reverse() left out
reversed_elements_kept(items) == items

\* let mut elements = get_elements(&tb).to_vec(); elements.reverse();
reversed_elements(items) == Reverse(items)

\* the loop of print_exception over the elements from position i: the lines
\* printed, and whether indexing a tuple element aborted the loop
RECURSIVE print_elements(_, _)
print_elements(elements, i) ==
    IF i > Len(elements) THEN [lines |-> <<>>, panicked |-> FALSE]
    ELSE LET element == elements[i]
         IN  IF element.kind = "tuple"
             THEN IF Len(element.items) < 3
                  THEN [lines |-> <<>>, panicked |-> TRUE]
                  ELSE LET rest == print_elements(elements, i + 1)
                           line == "  File " \o field_str(element.items[1])
                                   \o ", line " \o field_str(element.items[2])
                                   \o ", in " \o field_str(element.items[3])
                       IN  [lines |-> <<line>> \o rest.lines, panicked |-> rest.panicked]
             ELSE LET rest == print_elements(elements, i + 1)
                  IN  [lines |-> <<"  File ??">> \o rest.lines, panicked |-> rest.panicked]

\* print_exception(vm, exc): the lines printed and whether the call panicked
print_exception(b, d, obj) ==
    LET tbpart ==
            IF has_attribute(b, d, obj, "__traceback__")
            THEN LET tb == obj.dict["__traceback__"]
                     body == IF tb.kind = "list"
                             THEN print_elements(reversed_elements(tb.items), 1)
                             ELSE [lines |-> <<>>, panicked |-> FALSE]
                 IN  [lines |-> <<"Traceback (most recent call last):">> \o body.lines,
                      panicked |-> body.panicked]
            ELSE [lines |-> <<"No traceback set on exception">>, panicked |-> FALSE]
        txt == to_str_object(b, d, obj)
    IN  IF tbpart.panicked THEN tbpart
        ELSE CASE txt.kind = "ok" ->
                    [lines |-> tbpart.lines \o <<txt.val.s>>, panicked |-> FALSE]
               [] txt.kind = "err" ->
                    [lines |-> tbpart.lines \o <<"Error during error " \o txt.val.cls>>,
                     panicked |-> FALSE]
               [] OTHER -> [lines |-> tbpart.lines, panicked |-> TRUE]

(***************************************************************************)
(* Inputs of the exception operations.                                     *)
(***************************************************************************)
\* the arguments a constructor call passes after the receiver
Msgs == {StrV("boom"), BadV}
ExtraArgs == UNION {[1..n -> Msgs] : n \in 0..MaxArgs}

\* the entries found in a traceback list: two well-formed triples, a non-tuple,
\* and a tuple of fewer than three fields
E1 == TupleV(<<StrV("f.py"), StrV("1"), StrV("main")>>)
E2 == TupleV(<<StrV("f.py"), StrV("2"), StrV("helper")>>)
GoodEntries == {E1, E2}
Entries == GoodEntries \cup {StrV("oops"), TupleV(<<StrV("f.py"), StrV("1")>>)}

NoObject == [cls |-> "", dict |-> EmptyDict]
NeverInit == [called |-> FALSE, extra |-> <<>>]
\* the number of entries of the object's traceback list (0 when it has none)
traceback_len(obj) ==
    IF "__traceback__" \in DOMAIN obj.dict /\ obj.dict["__traceback__"].kind = "list"
    THEN Len(obj.dict["__traceback__"].items) ELSE 0
NoRet == [op |-> "", res |-> Ok(NoneV), lines |-> <<>>, panicked |-> FALSE, tb_len |-> 0]
Ret(op, res) == [op |-> op, res |-> res, lines |-> <<>>, panicked |-> FALSE, tb_len |-> 0]

(***************************************************************************)
(* objbytearray.rs: the byte buffer and its borrows.                       *)
(***************************************************************************)
\* char::from(u8) is the Latin-1 character of the byte; the char predicates on it
is_ascii(c) == c <= 127
is_digit10(c) == c \in 48..57
is_whitespace(c) == c \in (9..13) \cup {32, 133, 160}
is_uppercase(c) == c \in (65..90) \cup (192..214) \cup (216..222)
is_lowercase(c) == c \in (97..122) \cup {170, 181, 186} \cup (223..246) \cup (248..255)
is_alphabetic(c) ==
    c \in (65..90) \cup (97..122) \cup {170, 181, 186} \cup (192..214)
          \cup (216..246) \cup (248..255)
is_numeric(c) == c \in (48..57) \cup {178, 179, 185} \cup (188..190)
is_alphanumeric(c) == is_alphabetic(c) \/ is_numeric(c)

\* is_cased(c): its uppercase or its lowercase mapping changes it
is_cased(c) ==
    c \in (65..90) \cup (97..122) \cup {181} \cup (192..214) \cup (216..246) \cup (248..255)

bytearray_isalnum(bytes) == bytes # <<>> /\ \A i \in 1..Len(bytes) : is_alphanumeric(bytes[i])
bytearray_isalpha(bytes) == bytes # <<>> /\ \A i \in 1..Len(bytes) : is_alphabetic(bytes[i])
bytearray_isascii(bytes) == bytes # <<>> /\ \A i \in 1..Len(bytes) : is_ascii(bytes[i])
bytearray_isdigit(bytes) == bytes # <<>> /\ \A i \in 1..Len(bytes) : is_digit10(bytes[i])
bytearray_isspace(bytes) == bytes # <<>> /\ \A i \in 1..Len(bytes) : is_whitespace(bytes[i])
bytearray_islower(bytes) ==
    bytes # <<>> /\ \A i \in 1..Len(bytes) : ~is_whitespace(bytes[i]) => is_lowercase(bytes[i])
bytearray_isupper(bytes) ==
    bytes # <<>> /\ \A i \in 1..Len(bytes) : ~is_whitespace(bytes[i]) => is_uppercase(bytes[i])

\* the while loop of bytearray_istitle from position i
RECURSIVE istitle_loop(_, _, _)
istitle_loop(bytes, i, prev_cased) ==
    LET current == bytes[i]
    IN  IF i = Len(bytes)
        THEN IF is_uppercase(current) THEN ~prev_cased ELSE prev_cased
        ELSE LET next == bytes[i + 1]
             IN  IF \/ (is_cased(current) /\ is_uppercase(next) /\ ~prev_cased)
                    \/ (~is_cased(current) /\ is_lowercase(next))
                 THEN FALSE
                 ELSE istitle_loop(bytes, i + 1, is_cased(current))

bytearray_istitle(bytes) == IF bytes = <<>> THEN FALSE ELSE istitle_loop(bytes, 1, FALSE)

Predicates ==
    {"isalnum", "isalpha", "isascii", "isdigit", "islower", "isspace", "istitle", "isupper"}

predicate(p, bytes) ==
    CASE p = "isalnum" -> bytearray_isalnum(bytes)
      [] p = "isalpha" -> bytearray_isalpha(bytes)
      [] p = "isascii" -> bytearray_isascii(bytes)
      [] p = "isdigit" -> bytearray_isdigit(bytes)
      [] p = "islower" -> bytearray_islower(bytes)
      [] p = "isspace" -> bytearray_isspace(bytes)
      [] p = "istitle" -> bytearray_istitle(bytes)
      [] OTHER -> bytearray_isupper(bytes)

\* the characters of a str literal, as code points
Lit_bytearray_open == <<98, 121, 116, 101, 97, 114, 114, 97, 121, 40, 98, 39>>
Lit_close == <<39, 41>>

\* the lowercase hexadecimal digit of d
hex_digit(d) == IF d < 10 THEN 48 + d ELSE 87 + d

\* bytearray_to_hex: "\x" and two lowercase hexadecimal digits per byte
RECURSIVE bytearray_to_hex(_)
bytearray_to_hex(bytes) ==
    IF bytes = <<>> THEN <<>>
    ELSE <<92, 120, hex_digit(bytes[1] \div 16), hex_digit(bytes[1] % 16)>>
         \o bytearray_to_hex(Tail(bytes))

is_cont(bytes, i) == i <= Len(bytes) /\ bytes[i] \in 128..191

\* String::from_utf8(bytes) from position i: whether the bytes are well-formed
\* UTF-8, and the characters they encode
RECURSIVE from_utf8(_, _)
from_utf8(bytes, i) ==
    IF i > Len(bytes) THEN [ok |-> TRUE, cps |-> <<>>]
    ELSE LET b == bytes[i]
             n == CASE b <= 127 -> 1
                    [] b \in 194..223 -> 2
                    [] b \in 224..239 -> 3
                    [] b \in 240..244 -> 4
                    [] OTHER -> 0
             valid ==
                 CASE n = 1 -> TRUE
                   [] n = 2 -> is_cont(bytes, i + 1)
                   [] n = 3 -> /\ is_cont(bytes, i + 1) /\ is_cont(bytes, i + 2)
                               /\ (b = 224 => bytes[i + 1] >= 160)
                               /\ (b = 237 => bytes[i + 1] <= 159)
                   [] n = 4 -> /\ is_cont(bytes, i + 1) /\ is_cont(bytes, i + 2)
                               /\ is_cont(bytes, i + 3)
                               /\ (b = 240 => bytes[i + 1] >= 144)
                               /\ (b = 244 => bytes[i + 1] <= 143)
                   [] OTHER -> FALSE
         IN  IF ~valid THEN [ok |-> FALSE, cps |-> <<>>]
             ELSE LET cp == CASE n = 1 -> b
                              [] n = 2 -> (b - 192) * 64 + (bytes[i + 1] - 128)
                              [] n = 3 -> (b - 224) * 4096 + (bytes[i + 1] - 128) * 64
                                          + (bytes[i + 2] - 128)
                              [] OTHER -> (b - 240) * 262144 + (bytes[i + 1] - 128) * 4096
                                          + (bytes[i + 2] - 128) * 64 + (bytes[i + 3] - 128)
                      rest == from_utf8(bytes, i + n)
                  IN  [ok |-> rest.ok, cps |-> IF rest.ok THEN <<cp>> \o rest.cps ELSE <<>>]

\* bytearray_repr on the borrowed contents
bytearray_repr(value) ==
    LET utf8 == from_utf8(value, 1)
        data == IF utf8.ok THEN utf8.cps ELSE bytearray_to_hex(value)
    IN  CharsV(Lit_bytearray_open \o data \o Lit_close)

to_ascii_lowercase(bytes) ==
    [i \in 1..Len(bytes) |-> IF bytes[i] \in 65..90 THEN bytes[i] + 32 ELSE bytes[i]]
to_ascii_uppercase(bytes) ==
    [i \in 1..Len(bytes) |-> IF bytes[i] \in 97..122 THEN bytes[i] - 32 ELSE bytes[i]]

\* Vec::pop taken on a copy of the buffer: the buffer itself keeps its last byte
vec_pop_copy(value) ==
    IF value = <<>> THEN [some |-> FALSE, i |-> 0, value |-> value]
    ELSE [some |-> TRUE, i |-> value[Len(value)], value |-> value]

\* value.pop(): the last byte, if any, and the buffer without it
vec_pop(value) ==
    IF value = <<>> THEN [some |-> FALSE, i |-> 0, value |-> value]
    ELSE [some |-> TRUE, i |-> value[Len(value)], value |-> SubSeq(value, 1, Len(value) - 1)]

\* bytearray_pop returning None instead of failing on an empty buffer
bytearray_pop_result_none(popped) ==
    IF popped.some THEN Ok(IntV(popped.i)) ELSE Ok(NoneV)

\* the result of bytearray_pop from what value.pop() gave
bytearray_pop_result(popped) ==
    IF popped.some THEN Ok(IntV(popped.i))
    ELSE Err("IndexError", "pop from empty bytearray")

\* the loop of bytearray_new with a wrapping cast to u8 in place of to_u8
data_bytes_wrapping(elements, i) ==
    [ok |-> TRUE, data |-> [j \in 1..Len(elements) |-> elements[j] % 256]]

\* the loop of bytearray_new over the elements from position i: the bytes
\* pushed, or the failure at the first element that is no u8
RECURSIVE data_bytes(_, _)
data_bytes(elements, i) ==
    IF i > Len(elements) THEN [ok |-> TRUE, data |-> <<>>]
    ELSE IF elements[i] \in 0..255
         THEN LET rest == data_bytes(elements, i + 1)
              IN  [ok |-> rest.ok, data |-> IF rest.ok THEN <<elements[i]>> \o rest.data ELSE <<>>]
         ELSE [ok |-> FALSE, data |-> <<>>]

\* RefCell::borrow / borrow_mut on the buffer of object o: the borrow is refused
\* (the call panics) while a conflicting one is alive
try_borrow(h, o, mode) ==
    IF mode = "rd"
    THEN IF h[o].wr > 0 THEN [ok |-> FALSE, heap |-> h]
         ELSE [ok |-> TRUE, heap |-> [h EXCEPT ![o].rd = @ + 1]]
    ELSE IF h[o].wr > 0 \/ h[o].rd > 0 THEN [ok |-> FALSE, heap |-> h]
         ELSE [ok |-> TRUE, heap |-> [h EXCEPT ![o].wr = @ + 1]]

\* the borrows of a call, taken in order
RECURSIVE acquire(_, _, _)
acquire(h, borrows, i) ==
    IF i > Len(borrows) THEN [ok |-> TRUE, heap |-> h]
    ELSE LET b == try_borrow(h, borrows[i][1], borrows[i][2])
         IN  IF b.ok THEN acquire(b.heap, borrows, i + 1) ELSE [ok |-> FALSE, heap |-> h]

\* dropping the Ref / RefMut guards of a call
RECURSIVE release(_, _, _)
release(h, borrows, i) ==
    IF i > Len(borrows) THEN h
    ELSE release(IF borrows[i][2] = "rd" THEN [h EXCEPT ![borrows[i][1]].rd = @ - 1]
                 ELSE [h EXCEPT ![borrows[i][1]].wr = @ - 1],
                 borrows, i + 1)

\* get_value(obj): a shared borrow; get_mut_value(obj): a mutable borrow
get_value(o) == <<o, "rd">>
get_mut_value(o) == <<o, "wr">>

\* bytearray_eq borrowing its second argument mutably
eq_borrows_mut(a, b) == <<get_value(a), get_mut_value(b)>>

\* the borrows alive together in bytearray_eq: get_value(a) and get_value(b)
eq_borrows(a, b) == <<get_value(a), get_value(b)>>

(***************************************************************************)
(* Inputs of the bytearray operations.                                     *)
(***************************************************************************)
Refs == {"x", "y"}

\* the arguments of bytearray_new after the class: none, or an iterable of ints
NoArg == [present |-> FALSE, elements |-> <<>>]
Iterable(elements) == [present |-> TRUE, elements |-> elements]
NewArgs ==
    {NoArg, Iterable(<<7>>), Iterable(<<65, 98>>), Iterable(<<195, 169>>),
     Iterable(<<7, 256>>), Iterable(<<-1>>)}

\* the classes bytearray_new is called with: bytearray and a guest subclass of it
NewCalls ==
    {[cls |-> "bytearray", arg |-> a] : a \in NewArgs}
        \cup {[cls |-> "bytesub", arg |-> Iterable(<<7>>)]}

\* the second argument of bytearray_eq when it is no bytearray
Others == {NoneV}

Idle == [op |-> "", ref |-> "", arg |-> NoneV, held |-> <<>>, res |-> Ok(NoneV)]

\* the contents an object's mutation history accounts for: what it held when
\* built (nothing since its last clear), without the bytes popped since
Expected(h) == SubSeq(h.base, 1, Len(h.base) - h.pops)

(***************************************************************************)
(* stdlib/re.rs: Regex and Match values stored as opaque payloads.         *)
(***************************************************************************)
\* Patterns and texts are sequences of characters.  A pattern is made of
\* literal characters, "." (any character) and "("; a "(" that is never
\* closed does not compile.
Patterns == {<<"a">>, <<".", "b">>, <<"(", "a">>}
Texts == {<<"a">>, <<"b", "a", "b">>, <<"c">>}

\* Regex::new(pattern_str)
Regex_new(pat) ==
    IF \E i \in 1..Len(pat) : pat[i] = "("
    THEN [ok |-> FALSE, regex |-> [kind |-> "Regex", pat |-> <<>>]]
    ELSE [ok |-> TRUE, regex |-> [kind |-> "Regex", pat |-> pat]]

matches_at(pat, text, i) ==
    /\ i + Len(pat) <= Len(text)
    /\ \A k \in 1..Len(pat) : pat[k] = "." \/ pat[k] = text[i + k]

\* regex.find(text): the leftmost match, as offsets into the text
Regex_find(regex, text) ==
    LET starts == {i \in 0..Len(text) : matches_at(regex.pat, text, i)}
    IN  IF starts = {} THEN [some |-> FALSE, m |-> [kind |-> "Match", start |-> 0, end |-> 0]]
        ELSE LET i == CHOOSE i \in starts : \A j \in starts : i <= j
             IN  [some |-> TRUE,
                  m |-> [kind |-> "Match", start |-> i, end |-> i + Len(regex.pat)]]

\* PyObjectPayload::AnyRustValue { value: Box::new(value) }: the value stored
\* type-erased, with the identity of its type
AnyRustValue(type, value) == [kind |-> "AnyRustValue", type |-> type, value |-> value]
\* the payload of a str object
StringPayload(text) == [kind |-> "String", type |-> "", value |-> [kind |-> "str", text |-> text]]

\* value.downcast_ref::<T>() on the payload of obj
downcast_ref(obj, type) ==
    obj.payload.kind = "AnyRustValue" /\ obj.payload.type = type

\* make_regex(vm, pattern)
make_regex(pat) ==
    IF Regex_new(pat).ok THEN Ok(Regex_new(pat).regex)
    ELSE Err("ValueError", "Error in regex")

\* get_regex(obj)
get_regex(obj) ==
    IF downcast_ref(obj, "Regex") THEN Ok(obj.payload.value)
    ELSE Panic("Inner error getting regex")

\* get_match handing out whatever the opaque payload holds
get_match_unchecked(obj) ==
    IF obj.payload.kind = "AnyRustValue" THEN Ok(obj.payload.value)
    ELSE Panic("Inner error getting match")

\* get_match(obj)
get_match(obj) ==
    IF downcast_ref(obj, "Match") THEN Ok(obj.payload.value)
    ELSE Panic("Inner error getting match")

\* create_match(vm, match_value): the Match object
create_match(m) == [cls |-> "Match", payload |-> AnyRustValue("Match", m)]

\* do_search(vm, regex, search_text): None, or the Match object to build
do_search(regex, text) ==
    LET found == Regex_find(regex, text)
    IN  IF found.some THEN [none |-> FALSE, obj |-> create_match(found.m)]
        ELSE [none |-> TRUE, obj |-> create_match(found.m)]

\* do_match finding the pattern at the start of the text only
do_match_anchored(regex, text) ==
    IF matches_at(regex.pat, text, 0) THEN do_search(regex, text)
    ELSE [none |-> TRUE, obj |-> do_search(regex, text).obj]

\* do_match(vm, regex, search_text)
do_match(regex, text) == do_search(regex, text)

NoRRet == [op |-> "", arg |-> NoneV, res |-> Ok(NoneV)]

(***************************************************************************)
(* objslice.rs: the slice constructor and its three properties.            *)
(***************************************************************************)
\* a class object passed as a value
ClassV(name) == [kind |-> "class", name |-> name]

\* Option<BigInt>
NoBound == [some |-> FALSE, i |-> 0]
Bound(i) == [some |-> TRUE, i |-> i]

\* a slice object: PySlice { start, stop, step } with the class cls
PySlice(cls, start, stop, step) ==
    [kind |-> "slice", cls |-> cls, start |-> start, stop |-> stop, step |-> step]

\* the builtin classes the slice functions name
SliceBases ==
    create_type(create_type(create_type(BootBases, "int", "object"), "str", "object"),
                "slice", "object")

\* the class of a value
class_of(v) ==
    CASE v.kind = "int" -> "int"
      [] v.kind = "str" -> "str"
      [] v.kind = "class" -> "type"
      [] v.kind = "slice" -> v.cls
      [] OTHER -> "object"

\* PyFuncArgs { args, kwargs }
PyFuncArgs(args, kwargs) == [args |-> args, kwargs |-> kwargs]

\* a declared parameter; cls = "" is the constraint None
Param(name, cls) == [name |-> name, cls |-> cls]

\* arg_check!(vm, args, required = [..], optional = [..]): the count of the
\* arguments, then the class constraint of each; the type error names the
\* offending parameter
arg_check(b, args, required, optional) ==
    LET params == required \o optional
        bad == {i \in 1..Len(args) :
                   /\ i <= Len(params)
                   /\ params[i].cls # ""
                   /\ ~is_subclass(b, class_of(args[i]), params[i].cls)}
    IN  IF Len(args) < Len(required) \/ Len(args) > Len(params)
        THEN [ok |-> FALSE, err |-> Err("TypeError", "argument count")]
        ELSE IF bad # {}
        THEN [ok |-> FALSE,
              err |-> Err("TypeError", params[CHOOSE i \in bad : \A j \in bad : i <= j].name)]
        ELSE [ok |-> TRUE, err |-> Ok(NoneV)]

\* the two-argument arm binding its integer as the start
one_bound_as_start(stop) == <<Bound(stop.n), NoBound, NoBound>>

\* the arm for two arguments: Ok((cls, None, Some(stop), None)), as the bounds
\* <<start, stop, step>> the slice is built with
one_bound(stop) == <<NoBound, Bound(stop.n), NoBound>>

\* the arm for three and more arguments: Ok((cls, Some(start), Some(stop), step))
more_bounds(args) ==
    <<Bound(args[2].n), Bound(args[3].n),
      IF Len(args) >= 4 THEN Bound(args[4].n) ELSE NoBound>>

\* slice_new(vm, args)
slice_new(b, fa) ==
    IF fa.kwargs # <<>> THEN Err("TypeError", "keyword arguments")
    ELSE IF Len(fa.args) <= 1
    THEN Err("TypeError", "slice() must have at least one arguments.")
    ELSE IF Len(fa.args) = 2
    THEN LET chk == arg_check(b, fa.args, <<Param("cls", "type"), Param("stop", "int")>>, <<>>)
             bounds == one_bound(fa.args[2])
         IN  IF chk.ok
             THEN Ok(PySlice(fa.args[1].name, bounds[1], bounds[2], bounds[3]))
             ELSE chk.err
    ELSE LET chk == arg_check(b, fa.args,
                              <<Param("cls", "type"), Param("start", "int"),
                                Param("stop", "int")>>,
                              <<Param("step", "int")>>)
             bounds == more_bounds(fa.args)
         IN  IF chk.ok
             THEN Ok(PySlice(fa.args[1].name, bounds[1], bounds[2], bounds[3]))
             ELSE chk.err

\* get_property_value(vm, value)
get_property_value(value) ==
    IF value.some THEN Ok(IntV(value.i)) ELSE Ok(NoneV)

\* slice_start / slice_stop / slice_step (vm, args): field is the bound read
slice_property(b, fa, field) ==
    LET chk == arg_check(b, fa.args, <<Param("slice", "slice")>>, <<>>)
    IN  IF ~chk.ok THEN chk.err
        ELSE IF fa.args[1].kind = "slice"
        THEN get_property_value(fa.args[1][field])
        ELSE Panic("Slice has incorrect payload.")

slice_start(b, fa) == slice_property(b, fa, "start")
slice_stop(b, fa) == slice_property(b, fa, "stop")
slice_step(b, fa) == slice_property(b, fa, "step")

\* the values passed to the slice functions: the slice class, two integers
\* and a str
SliceVals == {ClassV("slice"), IntV(5), IntV(-2), StrV("x")}
SliceArgLists == UNION {[1..n -> SliceVals] : n \in 0..MaxSliceArgs}
\* the calls of slice_new: every argument list without keyword arguments, and
\* one call with a keyword argument
SliceCalls ==
    {PyFuncArgs(args, <<>>) : args \in SliceArgLists}
        \cup {PyFuncArgs(<<ClassV("slice"), IntV(5)>>, <<"step">>)}

NoSlice == [kind |-> "none"]
NoSRet == [op |-> "", args |-> PyFuncArgs(<<>>, <<>>), res |-> Ok(NoneV)]

(***************************************************************************)
(* Initial state.                                                          *)
(***************************************************************************)
InitExc ==
    /\ stage = "start"
    /\ bases = BootBases
    /\ dicts = [c \in {} |-> EmptyDict]
    /\ exc = NoObject
    /\ init_args = NeverInit
    /\ ret = NoRet

InitBytes ==
    /\ heap = <<>>
    /\ names = [r \in Refs |-> 0]
    /\ hist = <<>>
    /\ call = Idle

InitRe ==
    /\ objs = <<>>
    /\ rret = NoRRet

InitSlice ==
    /\ sl = NoSlice
    /\ sret = NoSRet

Init == InitExc /\ InitBytes /\ InitRe /\ InitSlice

(***************************************************************************)
(* Actions of the exception module.                                        *)
(***************************************************************************)
\* PyContext::new builds the exception classes
ExceptionZooNew ==
    /\ stage = "start"
    /\ stage' = "zoo"
    /\ bases' = ExceptionZoo_new(bases)
    /\ ret' = Ret("ExceptionZoo::new", Ok(NoneV))
    /\ UNCHANGED <<bytesVars, reVars, sliceVars>>
    /\ UNCHANGED <<dicts, exc, init_args>>

\* exceptions::init attaches the native functions
ExceptionsInit ==
    /\ stage = "zoo"
    /\ stage' = "init"
    /\ dicts' = exceptions_init(dicts)
    /\ ret' = Ret("init", Ok(NoneV))
    /\ UNCHANGED <<bytesVars, reVars, sliceVars>>
    /\ UNCHANGED <<bases, exc, init_args>>

\* Construction of an instance of class c with the extra constructor arguments:
\* a fresh object, then the __init__ its class chain supplies, if any.
construct(b, d, c, extra) ==
    LET fresh == [cls |-> c, dict |-> EmptyDict]
    IN  IF lookup_attribute(b, d, c, "__init__") = "exception_init"
        THEN exception_init(fresh, extra)
        ELSE fresh

\* The object under test is built once, when the context is complete.
NewObject(c, extra) ==
    /\ stage = "init"
    /\ exc = NoObject
    /\ exc' = construct(bases, dicts, c, extra)
    /\ init_args' = IF lookup_attribute(bases, dicts, c, "__init__") = "exception_init"
                    THEN [called |-> TRUE, extra |-> extra]
                    ELSE NeverInit
    /\ ret' = Ret("new", Ok(NoneV))
    /\ UNCHANGED <<bytesVars, reVars, sliceVars>>
    /\ UNCHANGED <<stage, bases, dicts>>

\* exception_init called on the object with the extra arguments
ExceptionInit(extra) ==
    /\ exc # NoObject
    /\ exc' = exception_init(exc, extra)
    /\ init_args' = [called |-> TRUE, extra |-> extra]
    /\ ret' = [Ret("exception_init", Ok(NoneV)) EXCEPT !.tb_len = traceback_len(exc)]
    /\ UNCHANGED <<bytesVars, reVars, sliceVars>>
    /\ UNCHANGED <<stage, bases, dicts>>

\* one frame unwinds: an entry is appended to the object's traceback list
Unwind(entry) ==
    /\ exc # NoObject
    /\ "__traceback__" \in DOMAIN exc.dict
    /\ exc.dict["__traceback__"].kind = "list"
    /\ Len(exc.dict["__traceback__"].items) < MaxTb
    /\ exc' = [exc EXCEPT !.dict["__traceback__"].items = Append(@, entry)]
    /\ ret' = Ret("unwind", Ok(NoneV))
    /\ UNCHANGED <<bytesVars, reVars, sliceVars>>
    /\ UNCHANGED <<stage, bases, dicts, init_args>>

\* guest code stores something that is not a list as the traceback
SetTraceback(v) ==
    /\ exc # NoObject
    /\ exc' = [exc EXCEPT !.dict = set_attr(@, "__traceback__", v)]
    /\ ret' = Ret("setattr", Ok(NoneV))
    /\ UNCHANGED <<bytesVars, reVars, sliceVars>>
    /\ UNCHANGED <<stage, bases, dicts, init_args>>

\* exception_str called on the object
ExceptionStr ==
    /\ exc # NoObject
    /\ ret' = Ret("exception_str", exception_str(bases, exc))
    /\ UNCHANGED <<bytesVars, reVars, sliceVars>>
    /\ UNCHANGED <<stage, bases, dicts, exc, init_args>>

\* the top-level driver prints the object
PrintException ==
    /\ exc # NoObject
    /\ LET p == print_exception(bases, dicts, exc)
       IN  ret' = [op |-> "print_exception", res |-> Ok(NoneV),
                   lines |-> p.lines, panicked |-> p.panicked, tb_len |-> 0]
    /\ UNCHANGED <<bytesVars, reVars, sliceVars>>
    /\ UNCHANGED <<stage, bases, dicts, exc, init_args>>

NextExc ==
    \/ ExceptionZooNew
    \/ ExceptionsInit
    \/ \E c \in DOMAIN bases, extra \in ExtraArgs : NewObject(c, extra)
    \/ \E extra \in ExtraArgs : ExceptionInit(extra)
    \/ \E entry \in Entries : Unwind(entry)
    \/ \E v \in {NoneV, StrV("tb")} : SetTraceback(v)
    \/ ExceptionStr
    \/ PrintException

SpecExc == Init /\ [][NextExc]_vars

(***************************************************************************)
(* Actions of the bytearray module.  A native call enters (it takes its    *)
(* borrows, reads or changes the buffer, has its result) and then returns  *)
(* (its guards are dropped); calls do not nest.                            *)
(***************************************************************************)
BytesOnly == UNCHANGED <<excVars, reVars, sliceVars>>

\* entering a call through reference r that takes `borrows`, leaves object o
\* with the contents newvalue and is to return res
Enter(op, r, arg, borrows, o, newvalue, res) ==
    /\ call = Idle
    /\ LET acq == acquire(heap, borrows, 1)
       IN  IF acq.ok
           THEN /\ heap' = [acq.heap EXCEPT ![o].value = newvalue]
                /\ call' = [op |-> op, ref |-> r, arg |-> arg, held |-> borrows, res |-> res]
           ELSE /\ heap' = heap
                /\ call' = [op |-> op, ref |-> r, arg |-> arg, held |-> <<>>,
                            res |-> Panic("already borrowed")]

\* bytearray_new(cls, val_option, vm); the guest binds the result to r on return
BytearrayNew(r, c) ==
    /\ call = Idle
    /\ Len(heap) < MaxObjs
    /\ LET d == IF c.arg.present THEN data_bytes(c.arg.elements, 1)
                ELSE [ok |-> TRUE, data |-> <<>>]
       IN  IF d.ok
           THEN /\ heap' = Append(heap, [cls |-> c.cls, value |-> d.data, rd |-> 0, wr |-> 0])
                /\ hist' = Append(hist, [base |-> d.data, pops |-> 0])
                /\ call' = [op |-> "new", ref |-> r, arg |-> c, held |-> <<>>,
                            res |-> Ok(ObjV(Len(heap) + 1))]
           ELSE /\ call' = [op |-> "new", ref |-> r, arg |-> c, held |-> <<>>,
                            res |-> Err("ValueError", "byte must be in range(0, 256)")]
                /\ UNCHANGED <<heap, hist>>
    /\ UNCHANGED names
    /\ BytesOnly

\* the guest makes r a second reference to the object s refers to
Alias(r, s) ==
    /\ call = Idle
    /\ names[s] # 0
    /\ names[r] # names[s]
    /\ names' = [names EXCEPT ![r] = names[s]]
    /\ UNCHANGED <<heap, hist, call>>
    /\ BytesOnly

\* bytesarray_len(vm, args)
BytesarrayLen(r) ==
    /\ names[r] # 0
    /\ LET a == names[r]
       IN  Enter("len", r, NoneV, <<get_value(a)>>, a, heap[a].value,
                 Ok(IntV(Len(heap[a].value))))
    /\ UNCHANGED <<names, hist>>
    /\ BytesOnly

\* bytearray_eq(vm, args) with a bytearray as second argument
BytearrayEq(r, s) ==
    /\ names[r] # 0
    /\ names[s] # 0
    /\ LET a == names[r]
           b == names[s]
       IN  Enter("eq", r, ObjV(b), eq_borrows(a, b), a, heap[a].value,
                 Ok(BoolV(heap[a].value = heap[b].value)))
    /\ UNCHANGED <<names, hist>>
    /\ BytesOnly

\* bytearray_eq(vm, args) with a second argument that is no bytearray
BytearrayEqOther(r, v) ==
    /\ names[r] # 0
    /\ Enter("eq", r, v, <<>>, names[r], heap[names[r]].value, Ok(BoolV(FALSE)))
    /\ UNCHANGED <<names, hist>>
    /\ BytesOnly

\* bytearray_isalnum ... bytearray_isupper(vm, args)
BytearrayPredicate(p, r) ==
    /\ names[r] # 0
    /\ LET a == names[r]
       IN  Enter(p, r, NoneV, <<get_value(a)>>, a, heap[a].value,
                 Ok(BoolV(predicate(p, heap[a].value))))
    /\ UNCHANGED <<names, hist>>
    /\ BytesOnly

\* bytearray_repr(vm, args)
BytearrayRepr(r) ==
    /\ names[r] # 0
    /\ LET a == names[r]
       IN  Enter("repr", r, NoneV, <<get_value(a)>>, a, heap[a].value,
                 Ok(bytearray_repr(heap[a].value)))
    /\ UNCHANGED <<names, hist>>
    /\ BytesOnly

\* bytearray_clear(vm, args)
BytearrayClear(r) ==
    /\ names[r] # 0
    /\ LET a == names[r]
       IN  /\ Enter("clear", r, NoneV, <<get_mut_value(a)>>, a, <<>>, Ok(NoneV))
           /\ hist' = [hist EXCEPT ![a] = [base |-> <<>>, pops |-> 0]]
    /\ UNCHANGED names
    /\ BytesOnly

\* bytearray_pop(vm, args)
BytearrayPop(r) ==
    /\ names[r] # 0
    /\ LET a == names[r]
           popped == vec_pop(heap[a].value)
           res == bytearray_pop_result(popped)
       IN  /\ Enter("pop", r, NoneV, <<get_mut_value(a)>>, a, popped.value, res)
           /\ hist' = IF res.kind = "ok" THEN [hist EXCEPT ![a].pops = @ + 1] ELSE hist
    /\ UNCHANGED names
    /\ BytesOnly

\* bytearray_lower(vm, args)
BytearrayLower(r) ==
    /\ names[r] # 0
    /\ LET a == names[r]
       IN  Enter("lower", r, NoneV, <<get_value(a)>>, a, heap[a].value,
                 Ok(BytearrayV(to_ascii_lowercase(heap[a].value))))
    /\ UNCHANGED <<names, hist>>
    /\ BytesOnly

\* bytearray_upper(vm, args)
BytearrayUpper(r) ==
    /\ names[r] # 0
    /\ LET a == names[r]
       IN  Enter("upper", r, NoneV, <<get_value(a)>>, a, heap[a].value,
                 Ok(BytearrayV(to_ascii_uppercase(heap[a].value))))
    /\ UNCHANGED <<names, hist>>
    /\ BytesOnly

\* the call in progress returns: its guards are dropped; the guest binds the
\* object bytearray_new built
Return ==
    /\ call # Idle
    /\ heap' = release(heap, call.held, 1)
    /\ names' = IF call.op = "new" /\ call.res.kind = "ok"
                THEN [names EXCEPT ![call.ref] = call.res.val.id]
                ELSE names
    /\ call' = Idle
    /\ UNCHANGED hist
    /\ BytesOnly

NextBytes ==
    \/ \E r \in Refs, c \in NewCalls : BytearrayNew(r, c)
    \/ \E r, s \in Refs : Alias(r, s)
    \/ \E r \in Refs : BytesarrayLen(r)
    \/ \E r, s \in Refs : BytearrayEq(r, s)
    \/ \E r \in Refs, v \in Others : BytearrayEqOther(r, v)
    \/ \E p \in Predicates, r \in Refs : BytearrayPredicate(p, r)
    \/ \E r \in Refs : BytearrayRepr(r)
    \/ \E r \in Refs : BytearrayClear(r)
    \/ \E r \in Refs : BytearrayPop(r)
    \/ \E r \in Refs : BytearrayLower(r)
    \/ \E r \in Refs : BytearrayUpper(r)
    \/ Return

SpecBytes == Init /\ [][NextBytes]_vars

(***************************************************************************)
(* Actions of the re module.                                               *)
(***************************************************************************)
ReOnly == UNCHANGED <<excVars, bytesVars, sliceVars>>

\* a call that returns res and, when built is TRUE, the new object obj
ReReturn(op, arg, res, built, obj) ==
    /\ objs' = IF built THEN Append(objs, obj) ELSE objs
    /\ rret' = [op |-> op, arg |-> arg,
                res |-> IF built THEN Ok(ObjV(Len(objs) + 1)) ELSE res]
    /\ ReOnly

\* the guest builds a str object
NewStr(text) ==
    /\ Len(objs) < MaxReObjs
    /\ ReReturn("str", NoneV, Ok(NoneV), TRUE, [cls |-> "str", payload |-> StringPayload(text)])

\* re_compile(vm, args)
ReCompile(pat) ==
    /\ Len(objs) < MaxReObjs
    /\ LET regex == make_regex(pat)
       IN  ReReturn("re_compile", [kind |-> "pattern", pat |-> pat], regex,
                    regex.kind = "ok",
                    [cls |-> "Pattern", payload |-> AnyRustValue("Regex", regex.val)])

\* a search with the regex of a call: its result, None or a new Match object
Searched(op, arg, regex, found) ==
    ReReturn(op, arg, IF regex.kind = "ok" THEN Ok(NoneV) ELSE regex,
             regex.kind = "ok" /\ ~found.none, found.obj)

\* re_match(vm, args)
ReMatch(pat, text) ==
    /\ Len(objs) < MaxReObjs
    /\ LET regex == make_regex(pat)
       IN  Searched("re_match", [kind |-> "call", pat |-> pat, text |-> text], regex,
                    do_match(regex.val, text))

\* re_search(vm, args)
ReSearch(pat, text) ==
    /\ Len(objs) < MaxReObjs
    /\ LET regex == make_regex(pat)
       IN  Searched("re_search", [kind |-> "call", pat |-> pat, text |-> text], regex,
                    do_search(regex.val, text))

\* pattern_match(vm, args) with object o as receiver
PatternMatch(o, text) ==
    /\ Len(objs) < MaxReObjs
    /\ LET regex == get_regex(objs[o])
       IN  Searched("pattern_match", [kind |-> "method", id |-> o, text |-> text], regex,
                    do_match(regex.val, text))

\* pattern_search(vm, args) with object o as receiver
PatternSearch(o, text) ==
    /\ Len(objs) < MaxReObjs
    /\ LET regex == get_regex(objs[o])
       IN  Searched("pattern_search", [kind |-> "method", id |-> o, text |-> text], regex,
                    do_search(regex.val, text))

\* match_start(vm, args) with object o as receiver
MatchStart(o) ==
    LET m == get_match(objs[o])
    IN  ReReturn("match_start", ObjV(o), IF m.kind = "ok" THEN Ok(IntV(0)) ELSE m,
                 FALSE, objs[o])

\* match_end(vm, args) with object o as receiver
MatchEnd(o) == ReReturn("match_end", ObjV(o), Ok(IntV(0)), FALSE, objs[o])

\* get_regex(obj) on object o
GetRegex(o) == ReReturn("get_regex", ObjV(o), get_regex(objs[o]), FALSE, objs[o])

\* get_match(obj) on object o
GetMatch(o) == ReReturn("get_match", ObjV(o), get_match(objs[o]), FALSE, objs[o])

NextRe ==
    \/ \E text \in Texts : NewStr(text)
    \/ \E pat \in Patterns : ReCompile(pat)
    \/ \E pat \in Patterns, text \in Texts : ReMatch(pat, text)
    \/ \E pat \in Patterns, text \in Texts : ReSearch(pat, text)
    \/ \E o \in 1..Len(objs), text \in Texts : PatternMatch(o, text)
    \/ \E o \in 1..Len(objs), text \in Texts : PatternSearch(o, text)
    \/ \E o \in 1..Len(objs) : MatchStart(o)
    \/ \E o \in 1..Len(objs) : MatchEnd(o)
    \/ \E o \in 1..Len(objs) : GetRegex(o)
    \/ \E o \in 1..Len(objs) : GetMatch(o)

SpecRe == Init /\ [][NextRe]_vars

(***************************************************************************)
(* Actions of the slice module.                                            *)
(***************************************************************************)
SliceOnly == UNCHANGED <<excVars, bytesVars, reVars>>

\* slice.__new__ called with the arguments fa
SliceNew(fa) ==
    /\ sret = NoSRet
    /\ sret' = [op |-> "slice_new", args |-> fa, res |-> slice_new(SliceBases, fa)]
    /\ UNCHANGED sl
    /\ SliceOnly

\* the start property read on the receiver v
SliceStart(v) ==
    /\ sret = NoSRet
    /\ sret' = [op |-> "slice_start", args |-> PyFuncArgs(<<v>>, <<>>),
                res |-> slice_start(SliceBases, PyFuncArgs(<<v>>, <<>>))]
    /\ UNCHANGED sl
    /\ SliceOnly

\* the stop property read on the receiver v
SliceStop(v) ==
    /\ sret = NoSRet
    /\ sret' = [op |-> "slice_stop", args |-> PyFuncArgs(<<v>>, <<>>),
                res |-> slice_stop(SliceBases, PyFuncArgs(<<v>>, <<>>))]
    /\ UNCHANGED sl
    /\ SliceOnly

\* the step property read on the receiver v
SliceStep(v) ==
    /\ sret = NoSRet
    /\ sret' = [op |-> "slice_step", args |-> PyFuncArgs(<<v>>, <<>>),
                res |-> slice_step(SliceBases, PyFuncArgs(<<v>>, <<>>))]
    /\ UNCHANGED sl
    /\ SliceOnly

\* the call returns to the guest, which keeps the slice slice_new built
SliceReturn ==
    /\ sret # NoSRet
    /\ sl' = IF sret.op = "slice_new" /\ sret.res.kind = "ok" THEN sret.res.val ELSE sl
    /\ sret' = NoSRet
    /\ SliceOnly

NextSlice ==
    \/ \E fa \in SliceCalls : SliceNew(fa)
    \/ \E v \in SliceVals \cup {sl} : SliceStart(v)
    \/ \E v \in SliceVals \cup {sl} : SliceStop(v)
    \/ \E v \in SliceVals \cup {sl} : SliceStep(v)
    \/ SliceReturn

SpecSlice == Init /\ [][NextSlice]_vars

(***************************************************************************)
(* Properties of the exception module (checked under SpecExc).             *)
(***************************************************************************)
\* the hierarchy as the specification lists it
ListedClasses ==
    {"BaseException", "Exception", "ArithmeticError", "OverflowError",
     "ZeroDivisionError", "AssertionError", "AttributeError", "ImportError",
     "ModuleNotFoundError", "IndexError", "KeyError", "NameError", "OSError",
     "FileNotFoundError", "PermissionError", "RuntimeError", "NotImplementedError",
     "StopIteration", "SyntaxError", "TypeError", "ValueError"}

ListedBase(c) ==
    CASE c = "BaseException" -> "object"
      [] c = "Exception" -> "BaseException"
      [] c \in {"OverflowError", "ZeroDivisionError"} -> "ArithmeticError"
      [] c = "ModuleNotFoundError" -> "ImportError"
      [] c \in {"FileNotFoundError", "PermissionError"} -> "OSError"
      [] c = "NotImplementedError" -> "RuntimeError"
      [] OTHER -> "Exception"

\* C1: after ExceptionZoo::new the exception classes are exactly the 21 listed
\* ones, each with the direct base the specification names, and every base
\* chain is acyclic and ends at the single root object class.
C1_Hierarchy ==
    stage # "start" =>
        /\ Cardinality(ListedClasses) = 21
        /\ DOMAIN bases = ListedClasses \cup {"object", "type"}
        /\ \A c \in ListedClasses : bases[c] = ListedBase(c)
        /\ \A c \in DOMAIN bases :
              LET m == MRO(bases, c)
              IN  /\ m[Len(m)] = "object"
                  /\ bases[m[Len(m)]] = ""
                  /\ \A i, j \in 1..Len(m) : m[i] = m[j] => i = j

C1_Witness ==
    /\ stage = "zoo"
    /\ MRO(bases, "ZeroDivisionError")
         = <<"ZeroDivisionError", "ArithmeticError", "Exception", "BaseException", "object">>

\* C2: for every class that is Exception or a descendant and every message
\* string m, exception_init with m as first extra argument and then
\* exception_str yields "<class name>: m"; with no extra argument it yields
\* "<class name>: No msg".
C2_RoundTrip ==
    (/\ ret.op = "exception_str"
     /\ init_args.called
     /\ is_subclass(bases, exc.cls, "Exception")) =>
        /\ Len(init_args.extra) = 0 => ret.res = Ok(StrV(exc.cls \o ": No msg"))
        /\ (Len(init_args.extra) > 0 /\ init_args.extra[1].kind = "str") =>
              ret.res = Ok(StrV(exc.cls \o ": " \o init_args.extra[1].s))

C2_Witness ==
    /\ ret.op = "exception_str"
    /\ exc.cls = "ZeroDivisionError"
    /\ init_args = [called |-> TRUE, extra |-> <<StrV("boom")>>]
    /\ ret.res = Ok(StrV("ZeroDivisionError: boom"))

\* C3: exception_str accepts every receiver that is an instance of
\* BaseException or a descendant and fails with a type error for any other
\* receiver; a direct instance of BaseException that went through
\* exception_init converts to "BaseException: <msg>".
C3_StrAcceptsBaseException ==
    ret.op = "exception_str" =>
        /\ is_subclass(bases, exc.cls, "BaseException") => ret.res.kind # "err"
        /\ ~is_subclass(bases, exc.cls, "BaseException") =>
              (ret.res.kind = "err" /\ ret.res.val.cls = "TypeError")
        /\ (/\ exc.cls = "BaseException"
            /\ init_args.called
            /\ Len(init_args.extra) > 0
            /\ init_args.extra[1].kind = "str") =>
              ret.res = Ok(StrV("BaseException: " \o init_args.extra[1].s))

\* the line the printer is to show for a well-formed traceback entry
EntryLine(e) ==
    "  File " \o e.items[1].s \o ", line " \o e.items[2].s \o ", in " \o e.items[3].s

PrintedGoodList ==
    /\ ret.op = "print_exception"
    /\ "__traceback__" \in DOMAIN exc.dict
    /\ exc.dict["__traceback__"].kind = "list"
    /\ \A i \in 1..Len(exc.dict["__traceback__"].items) :
          exc.dict["__traceback__"].items[i] \in GoodEntries

\* C4 as stated: print_exception prints the traceback entries in the order
\* they were appended, oldest first, for every traceback length.
C4_AppendOrder ==
    PrintedGoodList =>
        LET tb == exc.dict["__traceback__"].items
        IN  /\ Len(ret.lines) >= 1 + Len(tb)
            /\ \A i \in 1..Len(tb) : ret.lines[1 + i] = EntryLine(tb[i])

\* C4 amended: print_exception prints the traceback entries in the reverse of
\* the order they were appended, the entry appended last first, for every
\* traceback length.
C4_ReverseOrder ==
    PrintedGoodList =>
        LET tb == exc.dict["__traceback__"].items
        IN  /\ Len(ret.lines) >= 1 + Len(tb)
            /\ \A i \in 1..Len(tb) : ret.lines[1 + i] = EntryLine(tb[Len(tb) + 1 - i])

C4_Witness ==
    /\ ret.op = "print_exception"
    /\ "__traceback__" \in DOMAIN exc.dict
    /\ exc.dict["__traceback__"] = ListV(<<E1, E2>>)
    /\ ret.lines[2] = "  File f.py, line 2, in helper"
    /\ ret.lines[3] = "  File f.py, line 1, in main"

\* C5: print_exception never fails: with no __traceback__ it prints the
\* placeholder line; with a __traceback__ that is not a list only the header;
\* every list entry that is not a triple (a non-tuple, or a tuple of fewer
\* than three elements) prints "  File ??"; and it returns normally.
C5_PrintNeverFails ==
    ret.op = "print_exception" =>
        /\ ~ret.panicked
        /\ "__traceback__" \notin DOMAIN exc.dict =>
              (Len(ret.lines) = 2 /\ ret.lines[1] = "No traceback set on exception")
        /\ "__traceback__" \in DOMAIN exc.dict =>
              LET tb == exc.dict["__traceback__"]
              IN  /\ ret.lines[1] = "Traceback (most recent call last):"
                  /\ tb.kind # "list" => Len(ret.lines) = 2
                  /\ tb.kind = "list" =>
                        /\ Len(ret.lines) = Len(tb.items) + 2
                        /\ \A i \in 1..Len(tb.items) :
                              tb.items[Len(tb.items) + 1 - i] \notin GoodEntries =>
                                  ret.lines[1 + i] = "  File ??"

\* C10: after exceptions::init, "__init__" is found from every one of the 21
\* exception classes and is the same function, exception_init; "__str__" is
\* found from Exception and every descendant and is exception_str; and the
\* registration does not supply "__str__" to BaseException.
C10_Lookup ==
    stage = "init" =>
        /\ \A c \in ListedClasses :
              /\ lookup_attribute(bases, dicts, c, "__init__") = "exception_init"
              /\ c # "BaseException" =>
                    lookup_attribute(bases, dicts, c, "__str__") = "exception_str"
        /\ lookup_attribute(bases, dicts, "BaseException", "__str__") = ""
        /\ DOMAIN dicts = {"BaseException", "Exception"}
        /\ DOMAIN dicts["BaseException"] = {"__init__"}
        /\ DOMAIN dicts["Exception"] = {"__str__"}

C10_Witness ==
    /\ stage = "init"
    /\ ret.op = "print_exception"
    /\ exc.cls = "PermissionError"
    /\ init_args.called
    /\ lookup_attribute(bases, dicts, exc.cls, "__str__") = "exception_str"
    /\ ret.lines = <<"Traceback (most recent call last):", "PermissionError: No msg">>

\* C11: right after exception_init, on any receiver and with any number of
\* extra arguments, the receiver's msg is the first extra argument (further
\* ones are ignored) or "No msg" when there is none, and its __traceback__
\* is an empty list, also when the call is a re-run on an instance whose
\* traceback already had entries or was not a list.
C11_InitSetsMsgAndTraceback ==
    (ret.op = "exception_init" \/ (ret.op = "new" /\ init_args.called)) =>
        /\ "msg" \in DOMAIN exc.dict
        /\ exc.dict["msg"] = IF Len(init_args.extra) > 0
                             THEN init_args.extra[1] ELSE StrV("No msg")
        /\ "__traceback__" \in DOMAIN exc.dict
        /\ exc.dict["__traceback__"] = ListV(<<>>)

\* a re-run with two extra arguments on an instance whose traceback had grown
C11_Witness ==
    /\ ret.op = "exception_init"
    /\ ret.tb_len = MaxTb
    /\ init_args.extra = <<StrV("boom"), BadV>>
    /\ exc.dict["msg"] = StrV("boom")
    /\ exc.dict["__traceback__"] = ListV(<<>>)
(***************************************************************************)
(* Properties of the bytearray module (checked under SpecBytes).           *)
(***************************************************************************)
\* C6: bytearray_pop on a non-empty buffer returns the last byte and leaves
\* the buffer equal to its previous contents without that byte; on an empty
\* buffer it returns an index error with the message "pop from empty
\* bytearray" and leaves the buffer empty; returning changes nothing more.
C6_Pop ==
    [][/\ (call = Idle /\ call'.op = "pop") =>
            LET o == names[call'.ref]
                v == heap[o].value
            IN  IF v # <<>>
                THEN /\ call'.res = Ok(IntV(v[Len(v)]))
                     /\ heap'[o].value = SubSeq(v, 1, Len(v) - 1)
                ELSE /\ call'.res = Err("IndexError", "pop from empty bytearray")
                     /\ heap'[o].value = <<>>
       /\ (call.op = "pop" /\ call' = Idle) =>
            heap'[names[call.ref]].value = heap[names[call.ref]].value]_vars

C6_Witness ==
    /\ call.op = "pop"
    /\ call.res = Ok(IntV(7))
    /\ hist[names[call.ref]] = [base |-> <<7>>, pops |-> 1]
    /\ heap[names[call.ref]].value = <<>>

\* C12: bytearray_new with an iterable whose integers are all in 0..255
\* builds one new object holding exactly these integers in order; when an
\* element is below 0 or above 255 it returns the value error "byte must be
\* in range(0, 256)" and no object is built; with no argument the new object
\* is empty; the new object's class is the class passed as first argument.
C12_New ==
    [][(call = Idle /\ call'.op = "new") =>
          LET cls == call'.arg.cls
              val_option == call'.arg.arg
              elements == val_option.elements
              in_range == \A i \in 1..Len(elements) : elements[i] >= 0 /\ elements[i] <= 255
              built == [cls |-> cls, value |-> elements, rd |-> 0, wr |-> 0]
          IN  IF val_option.present /\ ~in_range
              THEN /\ call'.res = Err("ValueError", "byte must be in range(0, 256)")
                   /\ heap' = heap
              ELSE /\ call'.res = Ok(ObjV(Len(heap) + 1))
                   /\ heap' = Append(heap, built)
                   /\ ~val_option.present => heap'[Len(heap')].value = <<>>]_vars

\* a subclass instance holding <<7>> was built, and a later call whose second
\* element is 256 returned the value error without building an object
C12_Witness ==
    /\ call.op = "new"
    /\ call.arg = [cls |-> "bytearray", arg |-> Iterable(<<7, 256>>)]
    /\ call.res = Err("ValueError", "byte must be in range(0, 256)")
    /\ Len(heap) = 1
    /\ heap[1].cls = "bytesub"
    /\ heap[1].value = <<7>>

\* the guards of kind mode the call in progress holds on object o
Held(o, mode) == Cardinality({i \in 1..Len(call.held) : call.held[i] = <<o, mode>>})

\* C8: in every reachable state a buffer has at most one mutable borrow or
\* any number of shared ones, never both; no call trips the borrow check
\* (bytearray_eq with the same object twice included); and every borrow of a
\* call is released when it returns, on the error path of bytearray_pop as on
\* its success path, so that the next call can borrow the buffer.
C8_Borrows ==
    /\ call.res.kind # "panic"
    /\ \A o \in 1..Len(heap) :
          /\ heap[o].wr <= 1
          /\ heap[o].wr = 0 \/ heap[o].rd = 0
          /\ heap[o].rd = Held(o, "rd")
          /\ heap[o].wr = Held(o, "wr")
          /\ call = Idle =>
                /\ heap[o].rd = 0 /\ heap[o].wr = 0
                /\ try_borrow(heap, o, "rd").ok /\ try_borrow(heap, o, "wr").ok

C8_Witness ==
    /\ call.op = "eq"
    /\ call.arg = ObjV(names[call.ref])
    /\ heap[names[call.ref]].rd = 2
    /\ call.res = Ok(BoolV(TRUE))

\* C9: when one bytearray is reachable through two references, after any
\* bytearray_pop and bytearray_clear calls through either of them, len, eq and
\* repr through either observe the same contents: the contents the object was
\* built with, without the successfully popped bytes (empty after a clear).
C9_Aliasing ==
    /\ \A o \in 1..Len(heap) : heap[o].value = Expected(hist[o])
    /\ \A r \in Refs :
          (call.ref = r /\ call.op \in {"len", "eq", "repr"}) =>
              LET seen == Expected(hist[names[r]])
              IN  /\ call.op = "len" => call.res = Ok(IntV(Len(seen)))
                  /\ call.op = "repr" => call.res = Ok(bytearray_repr(seen))
                  /\ (call.op = "eq" /\ call.arg.kind = "obj") =>
                        call.res = Ok(BoolV(seen = Expected(hist[call.arg.id])))

C9_Witness ==
    /\ names["x"] = names["y"]
    /\ call.op = "len"
    /\ call.ref = "y"
    /\ hist[names["y"]] = [base |-> <<65, 98>>, pops |-> 1]
    /\ call.res = Ok(IntV(1))
(***************************************************************************)
(* Properties of the re module (checked under SpecRe).                     *)
(***************************************************************************)
\* C7: an opaque payload is recovered only under its own stored type:
\* get_regex on an object built by re_compile returns the Regex that was
\* stored; get_match on a Pattern object, get_regex on a Match object, and
\* either on an object with a non-opaque payload yield no value but stop with
\* a fatal internal error; the stored value is never handed out as the other
\* type.
C7_OpaqueDowncast ==
    /\ (rret.op = "re_compile" /\ rret.res.kind = "ok") =>
          LET obj == objs[rret.res.val.id]
          IN  /\ obj.cls = "Pattern"
              /\ get_regex(obj) = Ok([kind |-> "Regex", pat |-> rret.arg.pat])
              /\ get_match(obj).kind = "panic"
    /\ rret.op = "get_regex" =>
          LET obj == objs[rret.arg.id]
          IN  IF obj.cls = "Pattern"
              THEN rret.res.kind = "ok" /\ rret.res.val.kind = "Regex"
              ELSE rret.res.kind = "panic"
    /\ rret.op = "get_match" =>
          LET obj == objs[rret.arg.id]
          IN  IF obj.cls = "Match"
              THEN rret.res.kind = "ok" /\ rret.res.val.kind = "Match"
              ELSE rret.res.kind = "panic"

C7_Witness ==
    /\ rret.op = "get_match"
    /\ objs[rret.arg.id].cls = "Pattern"
    /\ get_regex(objs[rret.arg.id]) = Ok([kind |-> "Regex", pat |-> <<".", "b">>])
    /\ rret.res.kind = "panic"

\* the last call returned what an unanchored search of text with regex gives:
\* None when the pattern occurs nowhere, else a new Match object for the
\* leftmost occurrence
SearchResult(regex, text) ==
    IF \E i \in 0..Len(text) : matches_at(regex.pat, text, i)
    THEN /\ rret.res = Ok(ObjV(Len(objs)))
         /\ objs[Len(objs)].cls = "Match"
         /\ objs[Len(objs)] = do_search(regex, text).obj
    ELSE rret.res = Ok(NoneV)

C13_SliceNew ==
    LET a == sret.args.args
        n == Len(a)
        shaped == /\ a[1] = ClassV("slice")
                  /\ \A i \in 2..n : a[i].kind = "int"
        type_error == sret.res.kind = "err" /\ sret.res.val.cls = "TypeError"
    IN  /\ (sret.op = "slice_new" /\ sret.args.kwargs = <<>>) =>
              /\ n <= 1 => type_error
              /\ (n = 2 /\ shaped) =>
                    sret.res = Ok(PySlice("slice", NoBound, Bound(a[2].n), NoBound))
              /\ (n = 3 /\ shaped) =>
                    sret.res = Ok(PySlice("slice", Bound(a[2].n), Bound(a[3].n), NoBound))
              /\ (n = 4 /\ shaped) =>
                    sret.res = Ok(PySlice("slice", Bound(a[2].n), Bound(a[3].n), Bound(a[4].n)))
              /\ (n \in 2..4 /\ ~shaped) => type_error
        /\ (sret.op \in {"slice_start", "slice_stop", "slice_step"}
              /\ sl # NoSlice /\ a[1] = sl) =>
              LET value == CASE sret.op = "slice_start" -> sl.start
                             [] sret.op = "slice_stop" -> sl.stop
                             [] sret.op = "slice_step" -> sl.step
              IN  sret.res = IF value.some THEN Ok(IntV(value.i)) ELSE Ok(NoneV)

\* the start property of the slice built from the class and the one integer 5
\* is read and gives None
C13_Witness ==
    /\ sret.op = "slice_start"
    /\ sl = PySlice("slice", NoBound, Bound(5), NoBound)
    /\ sret.args.args = <<sl>>
    /\ sret.res = Ok(NoneV)

====
